---------------------------- MODULE Spec2Model ----------------------------
(***************************************************************************)
(* Bedrock inference-profile resolution.                                   *)
(*                                                                         *)
(*   - BedrockInferenceProfileResolver (src/unnamed/part_000): a cache     *)
(*     keyed by ARN in front of one GetInferenceProfile lookup.            *)
(*   - BedrockCustomArn (webview-ui settings panel): the React component   *)
(*     that posts resolve requests and applies the responses.              *)
(*                                                                         *)
(* Strings the code inspects (ARNs, model ids) are sequences of one-       *)
(* character strings, so that includes() and the extraction regex are      *)
(* computed and not assumed.                                               *)
(***************************************************************************)
EXTENDS Integers, Sequences, FiniteSets, TLC

VARIABLES
    \* ---- BedrockInferenceProfileResolver ----
    client,          \* this.client: "BedrockClient" or "null"
    cache,           \* this.cache: function from ARN to ResolvedInferenceProfileModel
    calls,           \* log of the resolveInferenceProfile calls made, in call order
    nClears,         \* number of clearCache() calls made so far
    \* ---- BedrockCustomArn panel ----
    awsCustomArn,    \* apiConfiguration.awsCustomArn
    isResolving,     \* useState(false)
    resolvedModelId, \* useState<string | null>(null)
    resolutionError, \* useState<string | null>(null)
    notified,        \* last argument passed to onResolvedModelInfo
    inflight,        \* resolve requests posted and not yet answered: ARN -> count
    shownFor,        \* ARN of the request whose response was applied last
    \* ---- one call of a function that takes no part in the above ----
    input,           \* its argument
    output           \* [done |-> FALSE], or [done |-> TRUE, value |-> what it returned]

resolverVars == <<client, cache, calls, nClears>>
panelVars == <<awsCustomArn, isResolving, resolvedModelId, resolutionError,
               notified, inflight, shownFor>>
fnVars == <<input, output>>
vars == <<client, cache, calls, nClears, awsCustomArn, isResolving,
          resolvedModelId, resolutionError, notified, inflight, shownFor,
          input, output>>

----------------------------------------------------------------------------
(* Bounds *)

\* resolveInferenceProfile calls made on the resolver
MaxCalls == 2
\* clearCache calls made on the resolver
MaxClears == 2
\* resolve requests the panel has posted and not seen answered
MaxInflight == 2

----------------------------------------------------------------------------
(* Strings *)

\* The empty JS string.
Empty == <<>>

\* undefined (a missing optional field of the SDK response).
Undefined == <<"undefined">>

\* s.includes(sub)
Includes(s, sub) ==
    \E i \in 1..(Len(s) - Len(sub) + 1) : SubSeq(s, i, i + Len(sub) - 1) = sub

\* First index >= from at which s holds ch, 0 when there is none.
IndexFrom(s, ch, from) ==
    LET hits == {i \in from..Len(s) : s[i] = ch}
    IN  IF hits = {} THEN 0 ELSE CHOOSE i \in hits : \A j \in hits : i <= j

\* \w of a JS regex without the u/i flags: [A-Za-z0-9_]
WordChars ==
    {"a","b","c","d","e","f","g","h","i","j","k","l","m","n","o","p","q","r",
     "s","t","u","v","w","x","y","z",
     "A","B","C","D","E","F","G","H","I","J","K","L","M","N","O","P","Q","R",
     "S","T","U","V","W","X","Y","Z",
     "0","1","2","3","4","5","6","7","8","9","_"}

\* The capture class [\w\.\-:]
ModelIdChars == WordChars \cup {".", "-", ":"}

ArnLiteral == <<"a","r","n">>
BedrockLiteral == <<"b","e","d","r","o","c","k">>

\* (mutant) the text after the first '/' is taken, whatever precedes it
ExtractModelIdFromArn_AfterSlash(arn) ==
    LET sl == IndexFrom(arn, "/", 1)
    IN  IF sl > 0 /\ arn # <<"undefined">> THEN SubSeq(arn, sl + 1, Len(arn)) ELSE <<>>

\* arn.match(/^arn:[^:]+:bedrock:[^:]+:[^:]*:(?:[^\/]+)\/([\w\.\-:]+)$/):
\* the captured group, or Empty when the regex does not match.  The fields
\* before the fifth colon cannot hold a colon, so the colons fix them; the
\* rest splits at a '/' with no '/' before it and only capture-class
\* characters after it, so it holds exactly one '/'.
ExtractModelIdFromArn(arn) ==
    LET p1 == IndexFrom(arn, ":", 1)
        p2 == IndexFrom(arn, ":", p1 + 1)
        p3 == p2 + Len(BedrockLiteral) + 1
        p4 == IndexFrom(arn, ":", p3 + 1)
        p5 == IndexFrom(arn, ":", p4 + 1)
        sl == IndexFrom(arn, "/", p5 + 1)
        matches ==
            /\ p1 = Len(ArnLiteral) + 1
            /\ SubSeq(arn, 1, p1 - 1) = ArnLiteral
            /\ p2 > p1 + 1
            /\ p3 <= Len(arn)
            /\ SubSeq(arn, p2 + 1, p3 - 1) = BedrockLiteral
            /\ arn[p3] = ":"
            /\ p4 > p3 + 1
            /\ p5 > p4
            /\ sl > p5 + 1
            /\ sl < Len(arn)
            /\ \A i \in (sl + 1)..Len(arn) : arn[i] \in ModelIdChars
    IN  IF matches THEN SubSeq(arn, sl + 1, Len(arn)) ELSE Empty

----------------------------------------------------------------------------
(* Values the resolver is exercised with *)

ArnPrefix ==
    <<"a","r","n",":","a","w","s",":","b","e","d","r","o","c","k",":",
      "r",":","1",":">>

\* arn:aws:bedrock:r:1:inference-profile/x
ProfileArn ==
    ArnPrefix \o <<"i","n","f","e","r","e","n","c","e","-","p","r","o","f",
                   "i","l","e","/","x">>

\* arn:aws:bedrock:r:1:application-inference-profile/y
AppProfileArn ==
    ArnPrefix \o <<"a","p","p","l","i","c","a","t","i","o","n","-",
                   "i","n","f","e","r","e","n","c","e","-","p","r","o","f",
                   "i","l","e","/","y">>

\* The ARNs resolveInferenceProfile is called with.
LookupArns == {ProfileArn, AppProfileArn}

\* arn:aws:bedrock:r:1:fm/m.1 and arn:aws:bedrock:r:1:fm/m-2:0
ModelArn1 == ArnPrefix \o <<"f","m","/","m",".","1">>
ModelArn2 == ArnPrefix \o <<"f","m","/","m","-","2",":","0">>

\* arn:aws:bedrock:r:1:fm (no resource id): the regex does not match.
MalformedModelArn == ArnPrefix \o <<"f","m">>

\* What client.send(command) can produce: a rejection (threw), or a response
\* whose models field is missing (hasModels = FALSE), empty, or a list of
\* models whose modelArn may be missing.
Response(threw, hasModels, models) ==
    [threw |-> threw, hasModels |-> hasModels, models |-> models]

Responses ==
    { Response(TRUE, FALSE, <<>>),
      Response(FALSE, FALSE, <<>>),
      Response(FALSE, TRUE, <<>>),
      Response(FALSE, TRUE, <<[modelArn |-> Undefined]>>),
      Response(FALSE, TRUE, <<[modelArn |-> MalformedModelArn],
                              [modelArn |-> ModelArn1]>>),
      Response(FALSE, TRUE, <<[modelArn |-> ModelArn1]>>),
      Response(FALSE, TRUE, <<[modelArn |-> ModelArn2],
                              [modelArn |-> ModelArn1]>>) }

\* null as a resolveInferenceProfile result.
Null == [null |-> TRUE]


----------------------------------------------------------------------------
(* BedrockInferenceProfileResolver *)

NoCache == [a \in {} |-> Null]

\* One resolveInferenceProfile call.  pc is "awaiting" while the call is
\* suspended at `await this.client.send(command)` and "returned" once its
\* promise is fulfilled with result ("threw" would be a rejected promise).
\* issued counts the client.send() calls it made; clears, endClears and
\* doneAtStart record when it ran: the number of clearCache() calls before
\* it started and before it returned, and the calls that had already
\* returned when it started.
NewCall(arn, pc, result, issued) ==
    [arn |-> arn, pc |-> pc, result |-> result, issued |-> issued,
     clears |-> nClears, endClears |-> nClears,
     doneAtStart |-> {i \in DOMAIN calls : calls[i].pc # "awaiting"}]

\* (mutant) the cache is never consulted
CacheHas_Never(arn) == FALSE

\* this.cache.has(inferenceProfileArn)
CacheHas(arn) == arn \in DOMAIN cache

\* (mutant) the result is not stored
CacheSet_Dropped(arn, result) == cache

\* (mutant) the map is replaced by one holding only the new entry
CacheSet_Replace(arn, result) == [a \in {arn} |-> result]

\* (mutant) every entry of the map is overwritten with the new result
CacheSet_AllKeys(arn, result) == [a \in DOMAIN cache \cup {arn} |-> result]

\* this.cache.set(inferenceProfileArn, result)
CacheSet(arn, result) ==
    [a \in DOMAIN cache \cup {arn} |-> IF a = arn THEN result ELSE cache[a]]

\* (mutant) the first model whose ARN yields an id is used
ModelFromResponse_AnyModel(response) ==
    LET good == {k \in DOMAIN response.models :
                    /\ response.models[k].modelArn # Undefined
                    /\ ExtractModelIdFromArn(response.models[k].modelArn) # Empty}
    IN  IF response.hasModels /\ good # {}
        THEN LET k == CHOOSE x \in good : \A y \in good : x <= y
             IN  [modelId |-> ExtractModelIdFromArn(response.models[k].modelArn),
                  modelArn |-> response.models[k].modelArn]
        ELSE Null

\* The try block after the await: the ResolvedInferenceProfileModel taken
\* from the first model of the response, or Null.
ModelFromResponse(response) ==
    IF response.hasModels /\ Len(response.models) > 0
    THEN LET firstModel == response.models[1]
             modelArn == IF firstModel.modelArn = Undefined
                         THEN Empty ELSE firstModel.modelArn
             modelId == ExtractModelIdFromArn(modelArn)
         IN  IF modelId # Empty
             THEN [modelId |-> modelId, modelArn |-> modelArn]
             ELSE Null
    ELSE Null

\* constructor -> initializeClient(): new BedrockClient(clientConfig) either
\* succeeds or throws into the catch, which leaves the client null.
ResolverInit ==
    /\ client \in {"BedrockClient", "null"}
    /\ cache = NoCache
    /\ calls = <<>>
    /\ nClears = 0

\* (mutant) the command is sent without checking this.client
ResolveInferenceProfile_NoClientCheck(arn) ==
    /\ Len(calls) < MaxCalls
    /\ calls' = Append(calls,
                  IF CacheHas(arn)
                  THEN NewCall(arn, "returned", cache[arn], 0)
                  ELSE NewCall(arn, "awaiting", Null, 1))
    /\ UNCHANGED <<client, cache, nClears>>
    /\ UNCHANGED panelVars
    /\ UNCHANGED fnVars

\* resolveInferenceProfile(arn) up to its first suspension: a cache hit and
\* a missing client return at once, otherwise the command is sent.
ResolveInferenceProfile(arn) ==
    /\ Len(calls) < MaxCalls
    /\ calls' = Append(calls,
                  IF CacheHas(arn)
                  THEN NewCall(arn, "returned", cache[arn], 0)
                  ELSE IF client = "null"
                       THEN NewCall(arn, "returned", Null, 0)
                       ELSE NewCall(arn, "awaiting", Null, 1))
    /\ UNCHANGED <<client, cache, nClears>>
    /\ UNCHANGED panelVars
    /\ UNCHANGED fnVars

\* (mutant) a call whose lookup yields no model sends the command again
SendSettles_Retry(i, response) ==
    /\ i \in DOMAIN calls
    /\ calls[i].pc = "awaiting"
    /\ LET result == IF response.threw THEN Null ELSE ModelFromResponse(response)
       IN  /\ cache' = IF result # Null THEN CacheSet(calls[i].arn, result) ELSE cache
           /\ calls' = IF result = Null /\ calls[i].issued < 2
                       THEN [calls EXCEPT ![i].issued = @ + 1]
                       ELSE [calls EXCEPT ![i].pc = "returned",
                                          ![i].result = result,
                                          ![i].endClears = nClears]
    /\ UNCHANGED <<client, nClears>>
    /\ UNCHANGED panelVars
    /\ UNCHANGED fnVars

\* The rest of call i once client.send() settles with `response`: a
\* rejection lands in the catch, a response goes through the try block.
SendSettles(i, response) ==
    /\ i \in DOMAIN calls
    /\ calls[i].pc = "awaiting"
    /\ LET result == IF response.threw THEN Null ELSE ModelFromResponse(response)
       IN  /\ cache' = IF result # Null THEN CacheSet(calls[i].arn, result) ELSE cache
           /\ calls' = [calls EXCEPT ![i].pc = "returned",
                                     ![i].result = result,
                                     ![i].endClears = nClears]
    /\ UNCHANGED <<client, nClears>>
    /\ UNCHANGED panelVars
    /\ UNCHANGED fnVars

\* (mutant) clearCache leaves the entries in place
ClearCache_Keeps ==
    /\ nClears < MaxClears
    /\ nClears' = nClears + 1
    /\ UNCHANGED <<client, cache, calls>>
    /\ UNCHANGED panelVars
    /\ UNCHANGED fnVars

\* clearCache()
ClearCache ==
    /\ nClears < MaxClears
    /\ cache' = NoCache
    /\ nClears' = nClears + 1
    /\ UNCHANGED <<client, calls>>
    /\ UNCHANGED panelVars
    /\ UNCHANGED fnVars

\* (mutant) only ":application-inference-profile/" is looked for
ShouldResolveArn_OneMarker(arn) ==
    Includes(arn, <<":","a","p","p","l","i","c","a","t","i","o","n","-",
                    "i","n","f","e","r","e","n","c","e","-","p","r","o",
                    "f","i","l","e","/">>)

\* static shouldResolveArn(arn)
ShouldResolveArn(arn) ==
    \/ Includes(arn, <<":","a","p","p","l","i","c","a","t","i","o","n","-",
                       "i","n","f","e","r","e","n","c","e","-","p","r","o",
                       "f","i","l","e","/">>)
    \/ Includes(arn, <<":","i","n","f","e","r","e","n","c","e","-","p","r","o",
                       "f","i","l","e","/">>)

ResolverNext ==
    \/ \E arn \in LookupArns : ResolveInferenceProfile(arn)
    \/ \E i \in 1..MaxCalls, response \in Responses : SendSettles(i, response)
    \/ ClearCache

----------------------------------------------------------------------------
(* BedrockCustomArn panel *)

\* JS null for resolvedModelId / resolutionError / onResolvedModelInfo.
NullValue == "null"

\* arn:aws:bedrock:r:1:provisioned-model/p
ProvisionedArn ==
    ArnPrefix \o <<"p","r","o","v","i","s","i","o","n","e","d","-","m","o",
                   "d","e","l","/","p">>

\* :inference-profile/z  (carries the marker, is no ARN)
BrokenProfileArn ==
    <<":","i","n","f","e","r","e","n","c","e","-","p","r","o","f","i","l",
      "e","/","z">>

\* The values typed into the ARN field.
PanelArns == {Empty, ProfileArn, AppProfileArn, ProvisionedArn, BrokenProfileArn}

InferenceProfileMarker ==
    <<":","i","n","f","e","r","e","n","c","e","-","p","r","o","f","i","l",
      "e","/">>

AppInferenceProfileMarker ==
    <<":","a","p","p","l","i","c","a","t","i","o","n","-",
      "i","n","f","e","r","e","n","c","e","-","p","r","o","f","i","l",
      "e","/">>

\* validateBedrockArn(awsCustomArn, awsRegion).isValid of @src/utils/validate
\* (the external ARN validator): the well-formed Bedrock ARNs are valid.
ValidateBedrockArn(arn) == arn \in {ProfileArn, AppProfileArn, ProvisionedArn}

\* validation.isValid (useMemo): an empty field is valid.
ValidationIsValid(arn) == IF arn # Empty THEN ValidateBedrockArn(arn) ELSE TRUE

\* (mutant) the effect tests for ":inference-profile/" only
IsProfileArn_OneMarker(arn) ==
    /\ arn # Empty
    /\ ValidationIsValid(arn)
    /\ Includes(arn, InferenceProfileMarker)

\* The condition of the auto-resolve effect, which is also the condition
\* under which the resolution box and its button are rendered.
IsProfileArn(arn) ==
    /\ arn # Empty
    /\ ValidationIsValid(arn)
    /\ \/ Includes(arn, AppInferenceProfileMarker)
       \/ Includes(arn, InferenceProfileMarker)

\* handleResolveArn's early return.
CanResolve(arn) == arn # Empty /\ ValidationIsValid(arn)

NoRequests == [a \in {} |-> 0]

InFlight(reqs, arn) == IF arn \in DOMAIN reqs THEN reqs[arn] ELSE 0

TotalInFlight(reqs) ==
    LET RECURSIVE Sum(_)
        Sum(S) == IF S = {} THEN 0
                  ELSE LET a == CHOOSE x \in S : TRUE
                       IN  reqs[a] + Sum(S \ {a})
    IN  Sum(DOMAIN reqs)

\* vscode.postMessage({type: "resolveBedrockInferenceProfile", text: arn})
PostMessage(reqs, arn) ==
    [a \in DOMAIN reqs \cup {arn} |-> InFlight(reqs, a) + (IF a = arn THEN 1 ELSE 0)]

\* One request for arn is answered.
Answered(reqs, arn) ==
    [a \in {x \in DOMAIN reqs : x # arn \/ reqs[x] > 1} |->
        reqs[a] - (IF a = arn THEN 1 ELSE 0)]

\* The bedrockInferenceProfileResolved messages: modelId and error are
\* strings, "" when the field is absent.
Messages == [modelId : {"", "m1", "m2"}, error : {"", "lookup failed"}]

\* The auto-resolve effect body for the rendered ARN: clears the resolution
\* state, tells the parent, and calls handleResolveArn for a profile ARN.
\* wasResolving is isResolving before the effect; reqs the requests in flight.
EffectIsResolving(arn, wasResolving) ==
    IF IsProfileArn(arn) /\ CanResolve(arn) THEN TRUE ELSE wasResolving

EffectInflight(arn, reqs) ==
    IF IsProfileArn(arn) /\ CanResolve(arn) THEN PostMessage(reqs, arn) ELSE reqs

\* (mutant) the effect leaves the resolved model id in place
EffectResolvedModelId_Kept(previous) == previous

\* setResolvedModelId(null) and setResolutionError(null); handleResolveArn
\* sets the error to null once more.
EffectResolvedModelId(previous) == NullValue

EffectResolutionError(previous) == NullValue

\* The component after mounting with `arn` in the saved configuration: the
\* useState defaults, then the auto-resolve effect.
PanelMounted(arn) ==
    /\ awsCustomArn = arn
    /\ isResolving = EffectIsResolving(arn, FALSE)
    /\ resolvedModelId = EffectResolvedModelId(NullValue)
    /\ resolutionError = EffectResolutionError(NullValue)
    /\ notified = NullValue
    /\ inflight = EffectInflight(arn, NoRequests)
    /\ shownFor = Empty

PanelInit == \E arn \in PanelArns : PanelMounted(arn)

\* The dependencies of the auto-resolve effect changed with `arn` rendered.
RunEffect(arn) ==
    /\ IsProfileArn(arn) => TotalInFlight(inflight) < MaxInflight
    /\ awsCustomArn' = arn
    /\ isResolving' = EffectIsResolving(arn, isResolving)
    /\ resolvedModelId' = EffectResolvedModelId(resolvedModelId)
    /\ resolutionError' = EffectResolutionError(resolutionError)
    /\ notified' = NullValue
    /\ inflight' = EffectInflight(arn, inflight)
    /\ UNCHANGED shownFor
    /\ UNCHANGED resolverVars
    /\ UNCHANGED fnVars

\* onInput of the ARN field: the parent stores the new value, the component
\* re-renders with it and the effect runs.
EditArn(arn) ==
    /\ arn # awsCustomArn
    /\ RunEffect(arn)

\* Any other field of apiConfiguration changes: apiConfiguration is a
\* dependency of the effect, so it runs again for the same ARN.
EditOtherSetting == RunEffect(awsCustomArn)

\* The Resolve button (rendered for a profile ARN, disabled while
\* isResolving) calls handleResolveArn.
ClickResolve ==
    /\ IsProfileArn(awsCustomArn)
    /\ ~isResolving
    /\ CanResolve(awsCustomArn)
    /\ TotalInFlight(inflight) < MaxInflight
    /\ isResolving' = TRUE
    /\ resolutionError' = NullValue
    /\ inflight' = PostMessage(inflight, awsCustomArn)
    /\ UNCHANGED <<awsCustomArn, resolvedModelId, notified, shownFor>>
    /\ UNCHANGED resolverVars
    /\ UNCHANGED fnVars

\* (mutant) an error response leaves the resolved model id in place
HandleModelId_KeptOnError(message) ==
    IF message.modelId # "" THEN message.modelId ELSE resolvedModelId

\* (mutant) the parent is not told about an error response
HandleNotified_ErrorSilent(message) ==
    IF message.modelId # "" THEN message.modelId ELSE notified

\* handleMessage: the response to one request for `arn` arrives.
HandleModelId(message) ==
    IF message.modelId # "" THEN message.modelId
    ELSE IF message.error # "" THEN NullValue
    ELSE resolvedModelId

HandleError(message) ==
    IF message.modelId # "" THEN NullValue
    ELSE IF message.error # "" THEN message.error
    ELSE resolutionError

HandleNotified(message) ==
    IF message.modelId # "" THEN message.modelId
    ELSE IF message.error # "" THEN NullValue
    ELSE notified

\* (mutant) a response with neither a modelId nor an error is ignored
ReceiveResolved_IgnoreEmpty(arn, message) ==
    /\ InFlight(inflight, arn) > 0
    /\ inflight' = Answered(inflight, arn)
    /\ isResolving' = IF message.modelId # "" \/ message.error # ""
                      THEN FALSE ELSE isResolving
    /\ resolvedModelId' = HandleModelId(message)
    /\ resolutionError' = HandleError(message)
    /\ notified' = HandleNotified(message)
    /\ shownFor' = IF message.modelId # "" \/ message.error # ""
                   THEN arn ELSE shownFor
    /\ UNCHANGED awsCustomArn
    /\ UNCHANGED resolverVars
    /\ UNCHANGED fnVars

\* (mutant) a response to a request for another ARN than the current one is
\* dropped
ReceiveResolved_DiscardStale(arn, message) ==
    /\ InFlight(inflight, arn) > 0
    /\ inflight' = Answered(inflight, arn)
    /\ IF arn = awsCustomArn
       THEN /\ isResolving' = FALSE
            /\ resolvedModelId' = HandleModelId(message)
            /\ resolutionError' = HandleError(message)
            /\ notified' = HandleNotified(message)
            /\ shownFor' = IF message.modelId # "" \/ message.error # ""
                           THEN arn ELSE shownFor
       ELSE UNCHANGED <<isResolving, resolvedModelId, resolutionError,
                        notified, shownFor>>
    /\ UNCHANGED awsCustomArn
    /\ UNCHANGED resolverVars
    /\ UNCHANGED fnVars

ReceiveResolved(arn, message) ==
    /\ InFlight(inflight, arn) > 0
    /\ inflight' = Answered(inflight, arn)
    /\ isResolving' = FALSE
    /\ resolvedModelId' = HandleModelId(message)
    /\ resolutionError' = HandleError(message)
    /\ notified' = HandleNotified(message)
    /\ shownFor' = IF message.modelId # "" \/ message.error # ""
                   THEN arn ELSE shownFor
    /\ UNCHANGED awsCustomArn
    /\ UNCHANGED resolverVars
    /\ UNCHANGED fnVars

PanelNext ==
    \/ \E arn \in PanelArns : EditArn(arn)
    \/ EditOtherSetting
    \/ ClickResolve
    \/ \E arn \in PanelArns, message \in Messages : ReceiveResolved(arn, message)

----------------------------------------------------------------------------
(* Specifications *)

\* No function call under way.
NotCalled == [done |-> FALSE]

Returns(value) == [done |-> TRUE, value |-> value]

NoCall == input = Empty /\ output = NotCalled

\* The resolver on its own (the panel stays as mounted with an empty field).
Init == ResolverInit /\ PanelMounted(Empty) /\ NoCall

Spec == Init /\ [][ResolverNext]_vars

\* The panel on its own (the resolver stays as constructed).
PanelSpecInit == ResolverInit /\ PanelInit /\ NoCall

PanelSpec == PanelSpecInit /\ [][PanelNext]_vars

\* The panel with the extension host answering: a request in flight for an
\* ARN stays in flight until a bedrockInferenceProfileResolved message for it
\* is delivered, and one is delivered eventually.
PanelFairSpec ==
    /\ PanelSpecInit
    /\ [][PanelNext]_vars
    /\ \A arn \in PanelArns :
          WF_vars(\E message \in Messages : ReceiveResolved(arn, message))

\* shouldResolveArn on its own: one call, with an argument put together
\* from a head, a middle that is a marker or nearly one, and a tail.
ArnHeads ==
    { Empty,
      <<"a","r","n",":","a","w","s",":","b","e","d","r","o","c","k",":",
        "e","u","-","w","e","s","t","-","1",":","1">>,
      ArnPrefix }

ArnMiddles ==
    { Empty,
      InferenceProfileMarker,
      AppInferenceProfileMarker,
      \* inference-profile/  (no colon)
      SubSeq(InferenceProfileMarker, 2, Len(InferenceProfileMarker)),
      \* :inference-profile  (no slash)
      SubSeq(InferenceProfileMarker, 1, Len(InferenceProfileMarker) - 1),
      \* :application-inference-profile  (no slash)
      SubSeq(AppInferenceProfileMarker, 1, Len(AppInferenceProfileMarker) - 1),
      <<":","I","n","f","e","r","e","n","c","e","-","P","r","o","f","i","l",
        "e","/">>,
      <<":","p","r","o","v","i","s","i","o","n","e","d","-","m","o","d","e",
        "l","/">> }

ArnTails == { Empty, <<"x">>, <<"/">> }

ShouldResolveInputs ==
    {h \o m \o t : h \in ArnHeads, m \in ArnMiddles, t \in ArnTails}

ShouldResolveInit ==
    /\ ResolverInit
    /\ PanelMounted(Empty)
    /\ input \in ShouldResolveInputs
    /\ output = NotCalled

\* BedrockInferenceProfileResolver.shouldResolveArn(input)
CallShouldResolveArn ==
    /\ output = NotCalled
    /\ output' = Returns(ShouldResolveArn(input))
    /\ UNCHANGED <<input, resolverVars, panelVars>>

ShouldResolveSpec == ShouldResolveInit /\ [][CallShouldResolveArn]_vars

\* initializeClient on its own: the constructor's options, and the
\* clientConfig handed to new BedrockClient().  An option string is "" when
\* it is not set; a clientConfig field that is left out is "" (<<>> for the
\* authSchemePreference list, kind "none" for credentials).
OptionsSet ==
    [ awsRegion : {"us-east-1"},
      awsBedrockEndpoint : {"", "https://vpce.example"},
      awsBedrockEndpointEnabled : BOOLEAN,
      awsUseApiKey : BOOLEAN,
      awsApiKey : {"", "key"},
      awsUseProfile : BOOLEAN,
      awsProfile : {"", "dev"},
      awsAccessKey : {"", "AKIA"},
      awsSecretKey : {"", "secret"},
      awsSessionToken : {"", "session"} ]

NoCredentials == [kind |-> "none"]

\* (mutant) the profile branch is tried before the API key branch
ClientConfig_ProfileFirst(options) ==
    LET base == [ region |-> options.awsRegion,
                  endpoint |-> IF options.awsBedrockEndpoint # ""
                                  /\ options.awsBedrockEndpointEnabled
                               THEN options.awsBedrockEndpoint ELSE "",
                  token |-> "",
                  authSchemePreference |-> <<>>,
                  credentials |-> NoCredentials ]
    IN  IF options.awsUseProfile /\ options.awsProfile # ""
        THEN [base EXCEPT !.credentials =
                 [kind |-> "fromIni", profile |-> options.awsProfile,
                  ignoreCache |-> TRUE]]
        ELSE IF options.awsUseApiKey /\ options.awsApiKey # ""
        THEN [base EXCEPT !.token = options.awsApiKey,
                          !.authSchemePreference = <<"httpBearerAuth">>]
        ELSE IF options.awsAccessKey # "" /\ options.awsSecretKey # ""
        THEN [base EXCEPT !.credentials =
                 [kind |-> "static",
                  accessKeyId |-> options.awsAccessKey,
                  secretAccessKey |-> options.awsSecretKey,
                  sessionToken |-> options.awsSessionToken]]
        ELSE base

\* The clientConfig initializeClient builds from this.options.
ClientConfig(options) ==
    LET base == [ region |-> options.awsRegion,
                  endpoint |-> IF options.awsBedrockEndpoint # ""
                                  /\ options.awsBedrockEndpointEnabled
                               THEN options.awsBedrockEndpoint ELSE "",
                  token |-> "",
                  authSchemePreference |-> <<>>,
                  credentials |-> NoCredentials ]
    IN  IF options.awsUseApiKey /\ options.awsApiKey # ""
        THEN [base EXCEPT !.token = options.awsApiKey,
                          !.authSchemePreference = <<"httpBearerAuth">>]
        ELSE IF options.awsUseProfile /\ options.awsProfile # ""
        THEN [base EXCEPT !.credentials =
                 [kind |-> "fromIni", profile |-> options.awsProfile,
                  ignoreCache |-> TRUE]]
        ELSE IF options.awsAccessKey # "" /\ options.awsSecretKey # ""
        THEN [base EXCEPT !.credentials =
                 [kind |-> "static",
                  accessKeyId |-> options.awsAccessKey,
                  secretAccessKey |-> options.awsSecretKey,
                  sessionToken |-> IF options.awsSessionToken # ""
                                   THEN options.awsSessionToken ELSE ""]]
        ELSE base

\* The field initialisers (client = null, cache = new Map()) with the
\* constructor's argument, before initializeClient runs.
ConstructInit ==
    /\ client = "null"
    /\ cache = NoCache
    /\ calls = <<>>
    /\ nClears = 0
    /\ PanelMounted(Empty)
    /\ input \in OptionsSet
    /\ output = NotCalled

\* initializeClient(): builds clientConfig; new BedrockClient(clientConfig)
\* returns the client or throws into the catch.
InitializeClient ==
    /\ output = NotCalled
    /\ output' = Returns(ClientConfig(input))
    /\ client' \in {"BedrockClient", "null"}
    /\ UNCHANGED <<cache, calls, nClears, input, panelVars>>

ConstructSpec == ConstructInit /\ [][InitializeClient]_vars

\* One lookup answer on its own: the resolver is called with ProfileArn and
\* client.send() settles with `input`, a response whose first model's ARN is
\* put together from the parts below (or is missing, or has no '/'), followed
\* or not by a well-formed second model.
ArnParts ==
    [ scheme : {<<"a","r","n">>, <<"A","R","N">>},
      partition : {<<"a","w","s">>, <<>>},
      service : {BedrockLiteral, <<"s","a","g","e">>},
      region : {<<"r">>, <<>>},
      account : {<<"1">>, <<>>},
      type : {<<"f","m">>, <<>>, <<"a",":","b">>},
      id : {<<"m",".","1">>, <<>>, <<"m","/","1">>, <<"m"," ","1">>,
            <<"m","-","2",":","0">>} ]

BuildArn(p) ==
    p.scheme \o <<":">> \o p.partition \o <<":">> \o p.service \o <<":">>
    \o p.region \o <<":">> \o p.account \o <<":">> \o p.type \o <<"/">> \o p.id

FirstModelArns ==
    {BuildArn(p) : p \in ArnParts} \cup {Undefined, MalformedModelArn}

LookupResponses ==
    Responses \cup
    { Response(FALSE, TRUE, <<[modelArn |-> a]>> \o rest) :
        a \in FirstModelArns, rest \in {<<>>, <<[modelArn |-> ModelArn1]>>} }

FirstModelInit ==
    /\ ResolverInit
    /\ PanelMounted(Empty)
    /\ input \in LookupResponses
    /\ output = NotCalled

FirstModelNext ==
    \/ ResolveInferenceProfile(ProfileArn)
    \/ \E i \in 1..MaxCalls : SendSettles(i, input)

FirstModelSpec == FirstModelInit /\ [][FirstModelNext]_vars

----------------------------------------------------------------------------
(* Properties of the resolver *)

Returned(i) == calls[i].pc = "returned"

Succeeded(i) == Returned(i) /\ calls[i].result # Null

SameArn(i, j) == calls[i].arn = calls[j].arn

\* Call i is the first call made with its ARN, call j the next one.
FirstThenNext(i, j) ==
    /\ i < j
    /\ SameArn(i, j)
    /\ \A k \in 1..(j - 1) : k # i => ~SameArn(k, i)

\* The ARN of call j was a cache key when call j was made: a call with that
\* ARN had returned a model since the last clearCache before call j.
CachedAtStart(j) ==
    \E k \in calls[j].doneAtStart :
        SameArn(k, j) /\ Succeeded(k) /\ calls[k].endClears = calls[j].clears

\* The calls appended by the step.
NewCalls == (DOMAIN calls') \ (DOMAIN calls)

\* C1 (as stated): on a resolver whose client was constructed, the first two
\* calls with the same ARN, with no clearCache in between, issue exactly one
\* lookup in total and the second returns what the first returned.
C1_TwoCallsOneLookup ==
    \A i, j \in DOMAIN calls :
        ( /\ client # "null"
          /\ FirstThenNext(i, j)
          /\ Returned(i) /\ Returned(j)
          /\ calls[j].endClears = calls[i].clears )
        => /\ calls[i].issued + calls[j].issued = 1
           /\ calls[j].result = calls[i].result

\* C1 (amended): when the first call with an ARN returned a model before the
\* second call with that ARN was made, with no clearCache in between, the two
\* calls issue exactly one lookup in total and the second returns at once
\* with the cached value, the model the first call returned.
C1_SecondCallServedFromCache ==
    \A i, j \in DOMAIN calls :
        ( /\ FirstThenNext(i, j)
          /\ Succeeded(i)
          /\ i \in calls[j].doneAtStart
          /\ calls[j].clears = calls[i].clears )
        => /\ Returned(j)
           /\ calls[i].issued + calls[j].issued = 1
           /\ calls[j].result = calls[i].result

C1_Witness ==
    \E i, j \in DOMAIN calls :
        /\ FirstThenNext(i, j)
        /\ Succeeded(i)
        /\ i \in calls[j].doneAtStart
        /\ calls[j].clears = calls[i].clears
        /\ Returned(j)

\* C2: a call made with an ARN that is a key of the cache returns the value
\* stored under that key, sends no command and leaves the cache as it was.
C2_CacheHitReturnsStored ==
    [][ \A j \in NewCalls :
            calls'[j].arn \in DOMAIN cache
            => /\ calls'[j].pc = "returned"
               /\ calls'[j].result = cache[calls'[j].arn]
               /\ calls'[j].issued = 0
               /\ cache' = cache ]_vars

C2_Witness ==
    \E j \in DOMAIN calls :
        Returned(j) /\ calls[j].issued = 0 /\ calls[j].result # Null

\* C3 (as stated): all models ever returned for an ARN, and its cache entry,
\* are the same.
C3_SameModelForever ==
    /\ \A i, j \in DOMAIN calls :
           (SameArn(i, j) /\ Succeeded(i) /\ Succeeded(j))
           => calls[i].result = calls[j].result
    /\ \A i \in DOMAIN calls :
           (Succeeded(i) /\ calls[i].arn \in DOMAIN cache)
           => cache[calls[i].arn] = calls[i].result

\* C3 (amended): a cache entry stays as it is, and a call made with its ARN
\* returns it, in every step that is neither a clearCache nor the completion
\* of a lookup for that same ARN that was in flight.
C3_EntryStableUntilClearOrOverlap ==
    [][ \A a \in DOMAIN cache :
            ( /\ nClears' = nClears
              /\ ~ \E i \in DOMAIN calls :
                     /\ calls[i].arn = a
                     /\ calls[i].pc = "awaiting"
                     /\ calls'[i].pc # "awaiting" )
            => /\ a \in DOMAIN cache'
               /\ cache'[a] = cache[a]
               /\ \A j \in NewCalls :
                      calls'[j].arn = a => calls'[j].result = cache[a] ]_vars

\* An entry outlived the completion of a lookup for another ARN.
C3_Witness ==
    \E i, j \in DOMAIN calls :
        /\ ~SameArn(i, j)
        /\ Succeeded(i) /\ Succeeded(j)
        /\ calls[i].issued = 1 /\ calls[j].issued = 1
        /\ i \in calls[j].doneAtStart
        /\ calls[i].arn \in DOMAIN cache
        /\ calls[j].arn \in DOMAIN cache

\* C4: on every failure path (no client; a rejected lookup; a response with
\* no models; a first model whose id cannot be extracted) the call returns
\* null, does not throw, and the cache is as before.
C4_FailureReturnsNullCacheKept ==
    [][ /\ \A i \in DOMAIN calls, r \in Responses :
               ( /\ SendSettles(i, r)
                 /\ \/ r.threw
                    \/ ~r.hasModels
                    \/ r.models = <<>>
                    \/ r.models[1].modelArn = Undefined
                    \/ ExtractModelIdFromArn(r.models[1].modelArn) = Empty )
               => /\ calls'[i].pc = "returned"
                  /\ calls'[i].result = Null
                  /\ cache' = cache
        /\ \A j \in NewCalls :
               (client = "null" /\ calls'[j].arn \notin DOMAIN cache)
               => /\ calls'[j].pc = "returned"
                  /\ calls'[j].result = Null
                  /\ cache' = cache ]_vars

\* A lookup failed while another ARN was cached.
C4_Witness ==
    \E i \in DOMAIN calls :
        /\ Returned(i) /\ calls[i].issued = 1 /\ calls[i].result = Null
        /\ cache # NoCache

\* C5: a resolver whose client is null keeps a null client, and every call
\* made on it returns null at once without sending a command.
C5_DisabledForever ==
    [][ client = "null"
        => /\ client' = "null"
           /\ \A j \in NewCalls :
                  /\ calls'[j].pc = "returned"
                  /\ calls'[j].result = Null
                  /\ calls'[j].issued = 0 ]_vars

C5_Witness ==
    /\ client = "null"
    /\ \E i, j \in DOMAIN calls :
           /\ ~SameArn(i, j)
           /\ calls[i].clears < calls[j].clears
           /\ Returned(i) /\ Returned(j)

\* C6: clearCache leaves no entry (every entry was written or read since the
\* last clearCache), and a call made with an ARN that was cached before a
\* clearCache and has not been cached again since sends a command.
C6_ClearForcesLookup ==
    /\ \A a \in DOMAIN cache :
           \E i \in DOMAIN calls :
               calls[i].arn = a /\ Succeeded(i) /\ calls[i].endClears = nClears
    /\ \A j \in DOMAIN calls :
           ( /\ \E i \in calls[j].doneAtStart :
                    /\ SameArn(i, j) /\ Succeeded(i)
                    /\ calls[i].endClears < calls[j].clears
             /\ ~CachedAtStart(j) )
           => calls[j].issued = 1

C6_Witness ==
    \E j \in DOMAIN calls :
        /\ \E i \in calls[j].doneAtStart :
               /\ SameArn(i, j) /\ Succeeded(i)
               /\ calls[i].endClears < calls[j].clears
        /\ ~CachedAtStart(j)
        /\ calls[j].issued = 1

\* C7: a call sends exactly one command when its ARN is not cached and the
\* client exists, none otherwise, and never a second one; a failed lookup
\* leaves nothing behind, so the next call with that ARN sends one again.
C7_OneAttemptPerUncachedCall ==
    \A j \in DOMAIN calls :
        calls[j].issued =
            IF client # "null" /\ ~CachedAtStart(j) THEN 1 ELSE 0

\* A call that follows a failed lookup for the same ARN sent its own command.
C7_Witness ==
    \E i, j \in DOMAIN calls :
        /\ SameArn(i, j)
        /\ i \in calls[j].doneAtStart
        /\ calls[i].issued = 1 /\ calls[i].result = Null
        /\ calls[j].issued = 1

EntryOf(map, arn) == IF arn \in DOMAIN map THEN map[arn] ELSE Null

\* The first-model ARNs of the lookup responses.
AnsweredModelArns ==
    {r.models[1].modelArn : r \in {x \in Responses : Len(x.models) > 0}}

\* modelId is the text after the '/' of modelArn.
IdOfArn(modelId, modelArn) ==
    \E k \in DOMAIN modelArn :
        /\ modelArn[k] = "/"
        /\ modelId = SubSeq(modelArn, k + 1, Len(modelArn))
        /\ \A n \in DOMAIN modelId : modelId[n] # "/"

\* C19: every cache entry was written by a successful lookup of its own key
\* since the last clearCache, its modelId is the non-empty id of its modelArn
\* and its modelArn the first model's ARN of a response; a resolver without a
\* client has an empty cache; a step of a call changes no entry but that of
\* the ARN of a call whose lookup settles in the step.
C19_EntriesFromOwnLookups ==
    /\ [](/\ \A arn \in DOMAIN cache :
                /\ cache[arn].modelId # Empty
                /\ IdOfArn(cache[arn].modelId, cache[arn].modelArn)
                /\ cache[arn].modelArn \in AnsweredModelArns
                /\ \E i \in DOMAIN calls :
                      /\ calls[i].arn = arn
                      /\ Succeeded(i)
                      /\ calls[i].issued = 1
                      /\ calls[i].result = cache[arn]
                      /\ calls[i].endClears = nClears
          /\ client = "null" => cache = NoCache)
    /\ [][ calls' # calls =>
             \A arn \in LookupArns :
                 EntryOf(cache', arn) # EntryOf(cache, arn)
                 => \E i \in DOMAIN calls :
                       /\ calls[i].arn = arn
                       /\ calls[i].pc = "awaiting"
                       /\ calls'[i].pc = "returned" ]_vars

\* Both ARNs are cached with different models, each by its own lookup.
C19_Witness ==
    /\ ProfileArn \in DOMAIN cache
    /\ AppProfileArn \in DOMAIN cache
    /\ cache[ProfileArn].modelArn = ModelArn1
    /\ cache[AppProfileArn].modelArn = ModelArn2
    /\ Len(calls) = 2
    /\ calls[1].result # calls[2].result

----------------------------------------------------------------------------
(* Properties of the panel *)

\* C8: a response is applied whatever ARN its request carried: when it has
\* a modelId or an error, the panel stops resolving and resolvedModelId,
\* resolutionError and the value given to onResolvedModelInfo are those of
\* the response, also when the ARN field has been edited since the request.
C8_LastResponseWins ==
    [][ \A arn \in PanelArns, m \in Messages :
            (ReceiveResolved(arn, m) /\ (m.modelId # "" \/ m.error # ""))
            => /\ ~isResolving'
               /\ resolvedModelId' = IF m.modelId # "" THEN m.modelId ELSE NullValue
               /\ resolutionError' = IF m.modelId # "" THEN NullValue ELSE m.error
               /\ notified' = resolvedModelId' ]_vars

\* The model shown, and reported to the parent, is the one resolved for an
\* ARN that is no longer the current one.
C8_Witness ==
    /\ IsProfileArn(awsCustomArn)
    /\ resolvedModelId # NullValue
    /\ notified = resolvedModelId
    /\ shownFor # awsCustomArn

\* C9 (as stated): no ARN value has two resolve requests in flight.
C9_OneInFlightPerArn ==
    \A a \in DOMAIN inflight : inflight[a] <= 1

\* C10 (as stated): a change of the ARN value leaves the panel idle: no
\* resolved model id, no error, not resolving.
C10_ResetToIdle ==
    [][ awsCustomArn' # awsCustomArn
        => /\ resolvedModelId' = NullValue
           /\ resolutionError' = NullValue
           /\ ~isResolving' ]_vars

\* C10 (amended): a change of the ARN value clears the resolved model id and
\* the error and reports null to the parent; isResolving is not reset: it is
\* true afterwards when the new value is auto-resolved and otherwise keeps
\* its value.
C10_ClearedOnArnChange ==
    [][ awsCustomArn' # awsCustomArn
        => /\ resolvedModelId' = NullValue
           /\ resolutionError' = NullValue
           /\ notified' = NullValue
           /\ isResolving' = (IsProfileArn(awsCustomArn') \/ isResolving) ]_vars

\* A response had been applied for one ARN, and the field now holds another
\* ARN with nothing shown and the panel still resolving.
C10_Witness ==
    /\ shownFor # Empty
    /\ shownFor # awsCustomArn
    /\ ~IsProfileArn(awsCustomArn)
    /\ resolvedModelId = NullValue
    /\ resolutionError = NullValue
    /\ notified = NullValue
    /\ isResolving

\* C11: when the ARN value changes, a resolve request carrying the new value
\* is posted if and only if the new value is non-empty, valid, and
\* shouldResolveArn of the resolver is true of it; no other request is posted.
C11_AutoResolveIffShouldResolve ==
    [][ awsCustomArn' # awsCustomArn
        => inflight' =
              IF /\ awsCustomArn' # Empty
                 /\ ValidationIsValid(awsCustomArn')
                 /\ ShouldResolveArn(awsCustomArn')
              THEN PostMessage(inflight, awsCustomArn')
              ELSE inflight ]_vars

\* The field went from one profile ARN to the application profile ARN: a
\* request for each is in flight.
C11_Witness ==
    /\ awsCustomArn = AppProfileArn
    /\ InFlight(inflight, AppProfileArn) = 1
    /\ InFlight(inflight, ProfileArn) = 1

\* C12 (as stated): whenever the Resolve button is rendered and enabled, no
\* resolve request is in flight.
C12_EnabledMeansNoneInFlight ==
    (IsProfileArn(awsCustomArn) /\ ~isResolving) => TotalInFlight(inflight) = 0

\* C16: the panel never holds a resolved model id and a resolution error at
\* the same time.
C16_NotModelAndError ==
    ~(resolvedModelId # NullValue /\ resolutionError # NullValue)

\* An error is shown that answers a request made for an ARN edited away since,
\* while the request for the current ARN is still in flight.
C16_Witness ==
    /\ resolutionError # NullValue
    /\ resolvedModelId = NullValue
    /\ shownFor # Empty
    /\ shownFor # awsCustomArn
    /\ InFlight(inflight, awsCustomArn) > 0

\* C17: the last value passed to onResolvedModelInfo is the panel's
\* resolvedModelId.
C17_ParentToldWhatIsShown == notified = resolvedModelId

\* The parent was told a model id, the panel shows it, and a further resolve
\* request was made since.
C17_Witness ==
    /\ notified = "m1"
    /\ resolvedModelId = "m1"
    /\ isResolving

\* C18: when every request in flight is eventually answered, isResolving does
\* not stay true for ever.
C18_ResolvingEnds == isResolving ~> ~isResolving

\* The indicator went off on a response with neither a modelId nor an error:
\* a profile ARN is rendered, no request is in flight, and nothing was shown.
C18_Witness ==
    /\ IsProfileArn(awsCustomArn)
    /\ CanResolve(awsCustomArn)
    /\ ~isResolving
    /\ TotalInFlight(inflight) = 0
    /\ shownFor = Empty
    /\ resolvedModelId = NullValue
    /\ resolutionError = NullValue

----------------------------------------------------------------------------
(* Properties of the functions *)

\* sub occurs in s, starting at position i.
OccursAt(s, sub, i) ==
    /\ i + Len(sub) - 1 <= Len(s)
    /\ \A k \in 1..Len(sub) : s[i + k - 1] = sub[k]

Contains(s, sub) == \E i \in 1..Len(s) : OccursAt(s, sub, i)

EuProfileArn ==
    <<"a","r","n",":","a","w","s",":","b","e","d","r","o","c","k",":",
      "e","u","-","w","e","s","t","-","1",":","1">>
    \o InferenceProfileMarker \o <<"x">>

EuProvisionedArn ==
    <<"a","r","n",":","a","w","s",":","b","e","d","r","o","c","k",":",
      "e","u","-","w","e","s","t","-","1",":","1",
      ":","p","r","o","v","i","s","i","o","n","e","d","-","m","o","d","e",
      "l","/","x">>

\* C13: shouldResolveArn returns true exactly when ":inference-profile/" or
\* ":application-inference-profile/" occurs in its argument (so it is true of
\* arn:aws:bedrock:eu-west-1:1:inference-profile/x and false of
\* ...:provisioned-model/x), whatever the resolver's state, and the call
\* leaves the resolver as it was.
C13_ShouldResolveIffMarker ==
    [][ (output'.done /\ ~output.done)
        => /\ output'.value =
                 ( \/ Contains(input, InferenceProfileMarker)
                   \/ Contains(input, AppInferenceProfileMarker) )
           /\ input = EuProfileArn => output'.value
           /\ input = EuProvisionedArn => ~output'.value
           /\ UNCHANGED resolverVars ]_vars

\* Both answers were given: true of the inference-profile example ...
C13_Witness ==
    /\ output.done
    /\ input = EuProfileArn
    /\ output.value

\* The authentication modes a clientConfig carries.
AuthModes(config) ==
    (IF config.token # "" THEN {"bearer"} ELSE {})
    \cup (IF config.credentials.kind = "fromIni" THEN {"profile"} ELSE {})
    \cup (IF config.credentials.kind = "static" THEN {"static"} ELSE {})
    \cup (IF config.token = "" /\ config.credentials = NoCredentials
          THEN {"default"} ELSE {})

BearerApplies(o) == o.awsUseApiKey /\ o.awsApiKey # ""
ProfileApplies(o) == o.awsUseProfile /\ o.awsProfile # ""
StaticApplies(o) == o.awsAccessKey # "" /\ o.awsSecretKey # ""

\* C14: the clientConfig carries exactly one authentication mode: the bearer
\* token when it applies; else the named profile when it applies; else the
\* static key pair when both keys are present, with the session token only
\* when one is supplied; else no explicit credentials.
C14_OneAuthModeByPriority ==
    output.done =>
        LET o == input
            config == output.value
        IN  /\ Cardinality(AuthModes(config)) = 1
            /\ BearerApplies(o) =>
                   /\ AuthModes(config) = {"bearer"}
                   /\ config.token = o.awsApiKey
                   /\ config.authSchemePreference = <<"httpBearerAuth">>
            /\ (~BearerApplies(o) /\ ProfileApplies(o)) =>
                   /\ AuthModes(config) = {"profile"}
                   /\ config.credentials.profile = o.awsProfile
            /\ (~BearerApplies(o) /\ ~ProfileApplies(o) /\ StaticApplies(o)) =>
                   /\ AuthModes(config) = {"static"}
                   /\ config.credentials.accessKeyId = o.awsAccessKey
                   /\ config.credentials.secretAccessKey = o.awsSecretKey
                   /\ config.credentials.sessionToken = o.awsSessionToken
            /\ (~BearerApplies(o) /\ ~ProfileApplies(o) /\ ~StaticApplies(o)) =>
                   AuthModes(config) = {"default"}

\* All three explicit modes applied and the bearer token won.
C14_Witness ==
    /\ output.done
    /\ BearerApplies(input) /\ ProfileApplies(input) /\ StaticApplies(input)
    /\ AuthModes(output.value) = {"bearer"}
    /\ client = "BedrockClient"

\* The parts make an ARN of the shape
\* arn:<partition>:bedrock:<region>:<account>:<resource-type>/<resource-id>:
\* partition and region are not empty, the resource type is not empty and
\* holds no '/', the resource id is not empty and made of letters, digits and
\* the characters _ . - :
PartsWellFormed(p) ==
    /\ p.scheme = <<"a","r","n">>
    /\ p.partition # <<>>
    /\ p.service = <<"b","e","d","r","o","c","k">>
    /\ p.region # <<>>
    /\ p.type # <<>>
    /\ \A k \in DOMAIN p.type : p.type[k] # "/"
    /\ p.id # <<>>
    /\ \A k \in DOMAIN p.id : p.id[k] \in WordChars \cup {".", "-", ":"}

\* What the claim has resolveInferenceProfile return for a response.
ExpectedModel(response) ==
    LET first == response.models[1].modelArn
        fits == {p \in ArnParts : BuildArn(p) = first /\ PartsWellFormed(p)}
    IN  IF fits # {}
        THEN [modelId |-> (CHOOSE p \in fits : TRUE).id, modelArn |-> first]
        ELSE Null

\* C15: when the lookup answers with at least one model, the call returns and
\* caches the first model's ARN with the resource id of that ARN as modelId;
\* when the first model's ARN is missing or not of the ARN shape, it returns
\* null and caches nothing, whatever models follow.
C15_FirstModelOnly ==
    [][ \A i \in DOMAIN calls :
            ( /\ SendSettles(i, input)
              /\ ~input.threw /\ input.hasModels /\ Len(input.models) >= 1 )
            => /\ calls'[i].result = ExpectedModel(input)
               /\ IF ExpectedModel(input) # Null
                  THEN /\ calls[i].arn \in DOMAIN cache'
                       /\ cache'[calls[i].arn] = ExpectedModel(input)
                  ELSE cache' = cache ]_vars

\* The id was taken from a first model with an empty account and a colon in
\* its resource type, and a second model was passed over.
C15_Witness ==
    /\ Len(calls) >= 1
    /\ Returned(1)
    /\ Len(input.models) = 2
    /\ input.models[1].modelArn =
          BuildArn([scheme |-> <<"a","r","n">>, partition |-> <<"a","w","s">>,
                    service |-> <<"b","e","d","r","o","c","k">>,
                    region |-> <<"r">>, account |-> <<>>,
                    type |-> <<"a",":","b">>,
                    id |-> <<"m","-","2",":","0">>])
    /\ calls[1].result # Null
    /\ calls[1].result.modelId = <<"m","-","2",":","0">>
    /\ ProfileArn \in DOMAIN cache
    /\ cache[ProfileArn] = calls[1].result

=============================================================================
